---- MODULE Spec2Model ----
(***************************************************************************)
(* Upsell selection and delivery pipeline of checkout_extensibility.       *)
(*                                                                         *)
(*   Upsell Store          prisma schema and migration (Shop, UpsellItem)  *)
(*   Selection Endpoint    app/routes/app._index.tsx  (loader, action)     *)
(*   Catalog Fetcher       app/routes/app._index.tsx  (loader's loop)      *)
(*   Public Query Endpoint app/routes/api.upsell.tsx  (loader)             *)
(*   Checkout Widget       extensions/checkout-ui/src/Checkout.tsx (App)   *)
(*                                                                         *)
(* Each component has its own specification over the shared variables:     *)
(*   Spec        the write path of the Selection Endpoint, run by          *)
(*               concurrent merchant sessions against the Upsell Store     *)
(*   SpecQuery   the Public Query Endpoint over any table the schema       *)
(*               admits                                                    *)
(*   SpecLoader  the read path of the Selection Endpoint with the          *)
(*               pagination loop (FairSpecLoader adds the scheduling       *)
(*               fairness of the awaited calls)                            *)
(*   SpecWidget  the Checkout Widget                                       *)
(***************************************************************************)
EXTENDS Integers, Sequences, FiniteSets, TLC

VARIABLES
    shops,        \* table Shop: set of rows [id, shopifyDomain]
    items,        \* table UpsellItem in insertion order: rows [shopId, shopifyProductId]
                  \* (the generated key id is read by no handler and is left out)
    sess,         \* one record per merchant session: its action call in flight and its last response
    resp,         \* last response of the Public Query Endpoint
    ld,           \* the Selection Endpoint's loader: locals of the call and the source's catalog
    w,            \* the Checkout Widget: React state, cart lines, calls in flight, rendered output
    page          \* the selection page (Index): loader data, React state, form post in flight

vars == <<shops, items, sess, resp, ld, w, page>>

-----------------------------------------------------------------------------
(* Bounds *)

NumSessions == 2      \* concurrent merchant sessions
NumProducts == 2      \* external product identifiers 1..NumProducts
MaxBatch    == 2      \* longest selectedProducts list of one form post
MaxCatalog  == 3      \* most products in the platform's catalog
NumUpsells  == 2      \* products the widget's node lookup can resolve, 1..NumUpsells
MaxPending  == 2      \* most cart-add operations in flight for one variant
TimeSteps   == 3      \* instants per error delay at which other events may happen

Sessions   == 1..NumSessions
ProductIds == 1..NumProducts

\* No code of the repository writes the Shop table: its rows are given.  Two
\* shops are installed and one domain has no Shop row.
Domains == {"a.myshopify.com", "b.myshopify.com", "c.myshopify.com"}

InstalledShops ==
    { [id |-> "shop-a", shopifyDomain |-> "a.myshopify.com"],
      [id |-> "shop-b", shopifyDomain |-> "b.myshopify.com"] }

\* findUnique resolves to null when no row matches
NoShop == [id |-> "null", shopifyDomain |-> "null"]

\* formData.get("intent"): "null" is the absent field
Intents == {"save", "delete", "null"}

\* formData.getAll("selectedProducts"): any list, repeats included
Batches == UNION { [1..n -> ProductIds] : n \in 0..MaxBatch }

-----------------------------------------------------------------------------
(* Upsell Store *)

\* (findFirst without the where clause resolves to a row whatever the domain)
FindShopAny(table, domain) ==
    IF table = {} THEN [id |-> "null", shopifyDomain |-> "null"] ELSE CHOOSE sh \in table : TRUE

\* prisma.shop.findUnique({ where: { shopifyDomain } })
FindShopByDomain(table, domain) ==
    IF \E sh \in table : sh.shopifyDomain = domain
    THEN CHOOSE sh \in table : sh.shopifyDomain = domain
    ELSE NoShop

\* include: { upsellItems: true }: the rows of the shop, in table order
UpsellItemsOf(table, shopId) ==
    SelectSeq(table, LAMBDA r : r.shopId = shopId)

\* UNIQUE INDEX "UpsellItem_shopifyProductId_key": the insert of rows violates it
\* when a row's product id is already in the table or occurs twice in rows
\* (a table without the index admits every insert)
UniqueViolationNever(table, rows) ==
    FALSE

UniqueViolation(table, rows) ==
    \/ \E i \in DOMAIN rows : \E j \in DOMAIN table :
          table[j].shopifyProductId = rows[i].shopifyProductId
    \/ \E i, j \in DOMAIN rows :
          i # j /\ rows[i].shopifyProductId = rows[j].shopifyProductId

\* the rows of a batch that a row-by-row insert would get in before the first violation
RECURSIVE InsertUntilViolation(_, _)
InsertUntilViolation(table, rows) ==
    IF rows = <<>> \/ UniqueViolation(table, <<Head(rows)>>)
    THEN table
    ELSE InsertUntilViolation(Append(table, Head(rows)), Tail(rows))

\* (an insert row by row, outside a transaction, keeps the rows before the violation)
CreateManyPartial(table, rows) ==
    IF UniqueViolation(table, rows)
    THEN [ok |-> FALSE, table |-> InsertUntilViolation(table, rows)]
    ELSE [ok |-> TRUE, table |-> table \o rows]

\* (create in place of createMany takes one row)
CreateFirstOnly(table, rows) ==
    IF UniqueViolation(table, rows)
    THEN [ok |-> FALSE, table |-> table]
    ELSE [ok |-> TRUE, table |-> table \o SubSeq(rows, 1, 1)]

\* prisma.upsellItem.createMany({ data }): one statement, all rows or a thrown error
CreateMany(table, rows) ==
    IF UniqueViolation(table, rows)
    THEN [ok |-> FALSE, table |-> table]
    ELSE [ok |-> TRUE, table |-> table \o rows]

InList(x, list) == \E i \in DOMAIN list : list[i] = x

\* (a where clause without shopId removes the rows of every shop)
DeleteManyAnyShop(table, shopId, productIds) ==
    SelectSeq(table, LAMBDA r : ~ InList(r.shopifyProductId, productIds))

\* prisma.upsellItem.deleteMany({ where: { shopId, shopifyProductId: { in } } })
DeleteMany(table, shopId, productIds) ==
    SelectSeq(table, LAMBDA r :
        ~ (r.shopId = shopId /\ InList(r.shopifyProductId, productIds)))

-----------------------------------------------------------------------------
(* Selection Endpoint, write path (action) *)

NoResponse      == [key |-> "none", text |-> ""]
ShopNotFound(domain) ==
    [key |-> "error", text |-> "Shop with domain " \o domain \o " not found"]
NoneSelected    == [key |-> "error", text |-> "No products selected."]
RemovedOk       == [key |-> "success", text |-> "Products removed successfully!"]
SavedOk         == [key |-> "success", text |-> "Products saved successfully!"]
ProcessingError == [key |-> "error", text |-> "An error occurred while processing products."]

IdleSession(result) ==
    [pc |-> "idle", shop |-> NoShop, productIds |-> <<>>, result |-> result]

\* data: productIds.map((id) => ({ shopifyProductId: id, shopId: shop.id }))
RowsOf(shopId, productIds) ==
    [i \in DOMAIN productIds |-> [shopId |-> shopId, shopifyProductId |-> productIds[i]]]

\* The call reads the form and the session, looks the shop up and returns early
\* when it is missing, or when the list of a save is empty.
ActionShopMissing(s, domain, intent, productIds) ==
    /\ sess[s].pc = "idle"
    /\ FindShopByDomain(shops, domain) = NoShop
    /\ sess' = [sess EXCEPT ![s] = IdleSession(ShopNotFound(domain))]
    /\ UNCHANGED <<shops, items, resp, ld, w, page>>

ActionNoneSelected(s, domain, intent, productIds) ==
    /\ sess[s].pc = "idle"
    /\ FindShopByDomain(shops, domain) # NoShop
    /\ intent # "delete"
    /\ Len(productIds) = 0
    /\ sess' = [sess EXCEPT ![s] = IdleSession(NoneSelected)]
    /\ UNCHANGED <<shops, items, resp, ld, w, page>>

\* (a handler without the test of productIds.length)
ActionIssueStoreCallUnchecked(s, domain, intent, productIds) ==
    /\ sess[s].pc = "idle"
    /\ FindShopByDomain(shops, domain) # NoShop
    /\ sess' = [sess EXCEPT ![s] =
                  [pc |-> IF intent = "delete" THEN "deleteMany" ELSE "createMany",
                   shop |-> FindShopByDomain(shops, domain),
                   productIds |-> productIds,
                   result |-> NoResponse]]
    /\ UNCHANGED <<shops, items, resp, ld, w, page>>

\* Otherwise it issues the store call of its branch and awaits it:
\* pc is the call awaited, deleteMany for intent "delete", createMany for any other.
ActionIssueStoreCall(s, domain, intent, productIds) ==
    /\ sess[s].pc = "idle"
    /\ FindShopByDomain(shops, domain) # NoShop
    /\ intent = "delete" \/ Len(productIds) # 0
    /\ sess' = [sess EXCEPT ![s] =
                  [pc |-> IF intent = "delete" THEN "deleteMany" ELSE "createMany",
                   shop |-> FindShopByDomain(shops, domain),
                   productIds |-> productIds,
                   result |-> NoResponse]]
    /\ UNCHANGED <<shops, items, resp, ld, w, page>>

\* The store runs deleteMany as one transaction and the call returns.
ActionDeleteMany(s) ==
    /\ sess[s].pc = "deleteMany"
    /\ items' = DeleteMany(items, sess[s].shop.id, sess[s].productIds)
    /\ sess' = [sess EXCEPT ![s] = IdleSession(RemovedOk)]
    /\ UNCHANGED <<shops, resp, ld, w, page>>

\* The store runs createMany as one transaction; a thrown error is caught.
ActionCreateMany(s) ==
    /\ sess[s].pc = "createMany"
    /\ LET r == CreateMany(items, RowsOf(sess[s].shop.id, sess[s].productIds))
       IN  /\ items' = r.table
           /\ sess' = [sess EXCEPT ![s] =
                         IdleSession(IF r.ok THEN SavedOk ELSE ProcessingError)]
    /\ UNCHANGED <<shops, resp, ld, w, page>>

-----------------------------------------------------------------------------
(* Public Query Endpoint (api.upsell loader) *)

\* url.searchParams.get("shopDomain") is null when the parameter is absent
Absent == "<absent>"
QueryParams == {Absent, ""} \cup Domains

\* shopDomain || ""
OrEmpty(shopDomain) ==
    IF shopDomain = Absent \/ shopDomain = "" THEN "" ELSE shopDomain

Headers ==
    [h \in {"Content-Type", "Access-Control-Allow-Origin",
            "Access-Control-Allow-Methods", "Access-Control-Allow-Headers"} |->
        CASE h = "Content-Type" -> "application/json"
          [] h = "Access-Control-Allow-Origin" -> "*"
          [] h = "Access-Control-Allow-Methods" -> "GET, POST, OPTIONS"
          [] h = "Access-Control-Allow-Headers" -> "Content-Type, Authorization"]

\* JSON.stringify({ error }) and JSON.stringify(shop.upsellItems)
ErrorBody(msg)  == [json |-> "object", error |-> msg, array |-> <<>>]
ArrayBody(rows) == [json |-> "array", error |-> "", array |-> rows]

NoQueryResponse ==
    [asked |-> FALSE, shopDomain |-> Absent, status |-> 0,
     body |-> ErrorBody(""), headers |-> <<>>]

\* (a catch branch that builds its Response without the headers)
QueryResponseBareError(shopTable, itemTable, shopDomain, storeUp) ==
    IF ~ storeUp
    THEN [asked |-> TRUE, shopDomain |-> shopDomain, status |-> 500,
          body |-> ErrorBody("Internal server error"), headers |-> <<>>]
    ELSE LET shop == FindShopByDomain(shopTable, OrEmpty(shopDomain))
         IN  IF shop = NoShop
             THEN [asked |-> TRUE, shopDomain |-> shopDomain, status |-> 404,
                   body |-> ErrorBody("Shop not found"), headers |-> Headers]
             ELSE [asked |-> TRUE, shopDomain |-> shopDomain, status |-> 200,
                   body |-> ArrayBody(UpsellItemsOf(itemTable, shop.id)),
                   headers |-> Headers]

\* (shop?.upsellItems ?? [] in place of the 404 branch)
QueryResponseEmptyForUnknown(shopTable, itemTable, shopDomain, storeUp) ==
    IF ~ storeUp
    THEN [asked |-> TRUE, shopDomain |-> shopDomain, status |-> 500,
          body |-> ErrorBody("Internal server error"), headers |-> Headers]
    ELSE LET shop == FindShopByDomain(shopTable, OrEmpty(shopDomain))
         IN  [asked |-> TRUE, shopDomain |-> shopDomain, status |-> 200,
              body |-> ArrayBody(UpsellItemsOf(itemTable, shop.id)),
              headers |-> Headers]

\* The response of the loader: the lookup throws when the store is down (catch, 500),
\* finds no shop (404) or finds it (Response's default status 200).
QueryResponse(shopTable, itemTable, shopDomain, storeUp) ==
    IF ~ storeUp
    THEN [asked |-> TRUE, shopDomain |-> shopDomain, status |-> 500,
          body |-> ErrorBody("Internal server error"), headers |-> Headers]
    ELSE LET shop == FindShopByDomain(shopTable, OrEmpty(shopDomain))
         IN  IF shop = NoShop
             THEN [asked |-> TRUE, shopDomain |-> shopDomain, status |-> 404,
                   body |-> ErrorBody("Shop not found"), headers |-> Headers]
             ELSE [asked |-> TRUE, shopDomain |-> shopDomain, status |-> 200,
                   body |-> ArrayBody(UpsellItemsOf(itemTable, shop.id)),
                   headers |-> Headers]

QueryLoader(shopDomain, storeUp) ==
    /\ resp' = QueryResponse(shops, items, shopDomain, storeUp)
    /\ UNCHANGED <<shops, items, sess, ld, w, page>>

-----------------------------------------------------------------------------
(* Selection Endpoint, read path (loader) with the Catalog Fetcher *)

\* The platform's catalog: a finite list of distinct products.  The edge of the
\* product at position i carries the cursor i; the null cursor stands before
\* the first product.
CatalogIds == 1..MaxCatalog
Catalogs ==
    { c \in UNION { [1..n -> CatalogIds] : n \in 0..MaxCatalog } :
        \A i, j \in DOMAIN c : i # j => c[i] # c[j] }

NullCursor == 0

\* products(first: 250, ...)
PageSize == 250

Min(a, b) == IF a < b THEN a ELSE b

\* The page the source returns for a request after cursor: the next k products
\* (at most PageSize, possibly none) and whether products remain after them.
SourcePage(catalog, cursor, k) ==
    [edges |-> [i \in 1..k |-> [node |-> catalog[cursor + i], cursor |-> cursor + i]],
     pageInfo |-> [hasNextPage |-> cursor + k < Len(catalog)]]

\* The source is the platform, outside the repository.  The loop provides for a
\* page that reports more pages and has no edges (edges.length > 0 is tested
\* next to hasNextPage), so the source may return one.  A response with fields
\* missing makes the loader throw and is not a page.
PageLengths(catalog, cursor) ==
    0..Min(PageSize, Len(catalog) - cursor)

\* shop?.upsellItems.map(item => item.shopifyProductId) || []
ExistingProducts(shop, itemTable) ==
    IF shop = NoShop
    THEN <<>>
    ELSE LET rows == UpsellItemsOf(itemTable, shop.id)
         IN  [i \in DOMAIN rows |-> rows[i].shopifyProductId]

\* (a loop that never advances its cursor)
NextCursorKept(cursor, products) ==
    cursor

\* if (hasNextPage && products.edges.length > 0) cursor = last edge's cursor
NextCursor(cursor, products) ==
    IF products.pageInfo.hasNextPage /\ Len(products.edges) > 0
    THEN products.edges[Len(products.edges)].cursor
    ELSE cursor

\* authenticate, look the shop up (no row is a benign empty list) and enter the loop
LoaderStart(domain) ==
    /\ ld.pc = "start"
    /\ ld' = [ld EXCEPT !.pc = "loop",
                        !.domain = domain,
                        !.existingProducts =
                            ExistingProducts(FindShopByDomain(shops, domain), items),
                        !.allProducts = <<>>,
                        !.hasNextPage = TRUE,
                        !.cursor = NullCursor]
    /\ UNCHANGED <<shops, items, sess, resp, w, page>>

\* while (hasNextPage): request the page after cursor and await it
LoaderRequestPage ==
    /\ ld.pc = "loop"
    /\ ld.hasNextPage
    /\ ld' = [ld EXCEPT !.pc = "await"]
    /\ UNCHANGED <<shops, items, sess, resp, w, page>>

\* the page arrives: append its edges, take its hasNextPage, advance the cursor
LoaderPageArrives(k) ==
    /\ ld.pc = "await"
    /\ k \in PageLengths(ld.catalog, ld.cursor)
    /\ LET products == SourcePage(ld.catalog, ld.cursor, k)
       IN  ld' = [ld EXCEPT !.pc = "loop",
                            !.allProducts = ld.allProducts \o products.edges,
                            !.hasNextPage = products.pageInfo.hasNextPage,
                            !.cursor = NextCursor(ld.cursor, products)]
    /\ UNCHANGED <<shops, items, sess, resp, w, page>>

\* the loop ends: return { products: { edges: allProducts }, existingProducts }
LoaderReturn ==
    /\ ld.pc = "loop"
    /\ ~ ld.hasNextPage
    /\ ld' = [ld EXCEPT !.pc = "done"]
    /\ UNCHANGED <<shops, items, sess, resp, w, page>>

-----------------------------------------------------------------------------
(* Checkout Widget (App) *)

UpsellProducts == 1..NumUpsells

\* A product as the node lookup resolves it: variants(first: 1) holds its first variant.
VariantId(p) == <<"ProductVariant", p>>
Product(p) == [id |-> <<"Product", p>>, variants |-> [nodes |-> <<[id |-> VariantId(p)]>>]]

\* a variant the shopper has in the cart that is the variant of no upsell product
OtherVariant == <<"ProductVariant", 0>>
Variants == { VariantId(p) : p \in UpsellProducts }

\* useCartLines(): the lines of the live cart, each with its merchandise
Carts == SUBSET { [merchandise |-> [id |-> v]] : v \in Variants \cup {OtherVariant} }

\* data.nodes: a node is a product or null (an id that resolves to nothing)
NullNode == [id |-> <<"null", 0>>, variants |-> [nodes |-> <<>>]]
NodeLists ==
    { n \in UNION { [1..k -> UpsellProducts \cup {0}] : k \in 0..NumUpsells } :
        \A i, j \in DOMAIN n : (i # j /\ n[i] # 0) => n[i] # n[j] }
NodesOf(n) == [i \in DOMAIN n |-> IF n[i] = 0 THEN NullNode ELSE Product(n[i])]

\* data.nodes.filter(Boolean)
FilterBoolean(nodes) == SelectSeq(nodes, LAMBDA x : x # NullNode)

\* the ways fetchUpsellProducts ends without products
FetchFailures == {"response not ok", "not an array", "empty array", "query errors", "thrown"}

\* (a filter that compares the product's id with the lines' merchandise ids)
AvailableProductsByProductId(products, lines) ==
    SelectSeq(products, LAMBDA product :
        ~ \E line \in lines : line.merchandise.id = product.id)

\* products.filter(product => !product.variants.nodes.some(({ id }) =>
\*     lines.some(line => line.merchandise.id === id)))
AvailableProducts(products, lines) ==
    SelectSeq(products, LAMBDA product :
        ~ \E i \in DOMAIN product.variants.nodes :
              \E line \in lines : line.merchandise.id = product.variants.nodes[i].id)

\* actionStates[variantId] || false
IsLoading(actionStates, variantId) ==
    IF variantId \in DOMAIN actionStates THEN actionStates[variantId] ELSE FALSE

\* (an update that does not spread prev: the other variants' flags are dropped)
WithFlagOnly(actionStates, variantId, flag) ==
    [v \in {variantId} |-> flag]

\* setActionStates(prev => ({ ...prev, [variantId]: flag }))
WithFlag(actionStates, variantId, flag) ==
    [v \in DOMAIN actionStates \cup {variantId} |->
        IF v = variantId THEN flag ELSE actionStates[v]]

Skeleton   == [kind |-> "skeleton", cards |-> <<>>, banner |-> FALSE]
RenderNull == [kind |-> "null", cards |-> <<>>, banner |-> FALSE]

\* The body of App after the hooks: what one render returns.
Render(st) ==
    IF st.loading THEN Skeleton
    ELSE IF Len(st.products) = 0 THEN RenderNull
    ELSE LET availableProducts == AvailableProducts(st.products, st.lines)
         IN  IF Len(availableProducts) = 0 THEN RenderNull
             ELSE [kind |-> "list",
                   cards |-> [i \in DOMAIN availableProducts |->
                                [product |-> availableProducts[i],
                                 loading |-> IsLoading(st.actionStates,
                                               availableProducts[i].variants.nodes[1].id)]],
                   banner |-> st.showError]

\* React renders again after every change of state or of a hook's value.
Rerendered(st) == [st EXCEPT !.rendered = Render(st)]

NoPending == [v \in Variants |-> 0]

\* setTimeout(() => setShowError(false), 3000): the delay in milliseconds
ErrorDelay == 3000
\* the time that passes in one step of the clock
StepMs == ErrorDelay \div TimeSteps

\* useEffect(..., [showError]): runs after a render in which showError changed;
\* on a change to true it sets the timeout, whose remaining time is st.timer
ShowErrorEffect(prev, st) ==
    IF st.showError /\ ~ prev.showError THEN [st EXCEPT !.timer = ErrorDelay] ELSE st

\* sinceError is the time since the latest error result, kept while showError is set
WidgetInit(lines) ==
    Rerendered([pc |-> "idle", products |-> <<>>, loading |-> FALSE,
                actionStates |-> <<>>, showError |-> FALSE, lines |-> lines,
                pending |-> NoPending, timer |-> 0, sinceError |-> 0,
                rendered |-> RenderNull])

\* the mount effect calls fetchUpsellProducts: setLoading(true), then the awaited calls
WidgetMount ==
    /\ w.pc = "idle"
    /\ w' = Rerendered([w EXCEPT !.pc = "fetching", !.loading = TRUE])
    /\ UNCHANGED <<shops, items, sess, resp, ld, page>>

\* (a fetch without the finally block: loading stays set after a failure)
WidgetFetchFailsNoFinally(failure) ==
    /\ w.pc = "fetching"
    /\ failure \in FetchFailures
    /\ w' = Rerendered([w EXCEPT !.pc = "mounted", !.products = <<>>])
    /\ UNCHANGED <<shops, items, sess, resp, ld, page>>

\* the fetch ends without products (early return or catch): setProducts([]), finally
WidgetFetchFails(failure) ==
    /\ w.pc = "fetching"
    /\ failure \in FetchFailures
    /\ w' = Rerendered([w EXCEPT !.pc = "mounted", !.products = <<>>, !.loading = FALSE])
    /\ UNCHANGED <<shops, items, sess, resp, ld, page>>

\* the node lookup resolves: setProducts(data.nodes.filter(Boolean)), finally
WidgetFetchResolves(n) ==
    /\ w.pc = "fetching"
    /\ w' = Rerendered([w EXCEPT !.pc = "mounted",
                                 !.products = FilterBoolean(NodesOf(n)),
                                 !.loading = FALSE])
    /\ UNCHANGED <<shops, items, sess, resp, ld, page>>

\* the shopper or the host changes the cart: useCartLines() yields the new lines
WidgetCartChanges(lines) ==
    /\ lines # w.lines
    /\ w' = Rerendered([w EXCEPT !.lines = lines])
    /\ UNCHANGED <<shops, items, sess, resp, ld, page>>

\* the shopper presses the button of a rendered card: handleAddToCart up to its await
WidgetPress(variantId) ==
    /\ w.rendered.kind = "list"
    /\ \E i \in DOMAIN w.rendered.cards :
          w.rendered.cards[i].product.variants.nodes[1].id = variantId
    /\ w.pending[variantId] < MaxPending
    /\ w' = Rerendered([w EXCEPT !.actionStates = WithFlag(w.actionStates, variantId, TRUE),
                                 !.pending[variantId] = @ + 1])
    /\ UNCHANGED <<shops, items, sess, resp, ld, page>>

\* applyCartLinesChange resolves with success: the line is in the cart
WidgetAddSucceeds(variantId) ==
    /\ w.pending[variantId] > 0
    /\ w' = Rerendered([w EXCEPT !.actionStates = WithFlag(w.actionStates, variantId, FALSE),
                                 !.pending[variantId] = @ - 1,
                                 !.lines = @ \cup {[merchandise |-> [id |-> variantId]]}])
    /\ UNCHANGED <<shops, items, sess, resp, ld, page>>

\* applyCartLinesChange resolves with an error result: setShowError(true)
WidgetAddFails(variantId) ==
    /\ w.pending[variantId] > 0
    /\ w' = ShowErrorEffect(w,
                Rerendered([w EXCEPT !.actionStates = WithFlag(w.actionStates, variantId, FALSE),
                                     !.pending[variantId] = @ - 1,
                                     !.showError = TRUE,
                                     !.sinceError = 0]))
    /\ UNCHANGED <<shops, items, sess, resp, ld, page>>

\* time passes while the timeout is pending, at most until it is due
WidgetTimePasses ==
    /\ w.showError
    /\ w.timer > 0
    /\ LET dt == Min(StepMs, w.timer)
       IN  w' = [w EXCEPT !.timer = @ - dt,
                          !.sinceError = Min(@ + dt, ErrorDelay)]
    /\ UNCHANGED <<shops, items, sess, resp, ld, page>>

\* the timeout of the showError effect is due and runs: setShowError(false)
WidgetErrorTimerFires ==
    /\ w.showError
    /\ w.timer = 0
    /\ w' = Rerendered([w EXCEPT !.showError = FALSE, !.sinceError = 0])
    /\ UNCHANGED <<shops, items, sess, resp, ld, page>>

-----------------------------------------------------------------------------
(* Selection page (Index) *)

\* useLoaderData(): the catalog's product ids in the catalog's order, here
\* ascending, and the ids of the shop's upsell products
PageCatalogs == { c \in Catalogs : \A i, j \in DOMAIN c : i < j => c[i] < c[j] }
PageExisting == SUBSET CatalogIds

NoForm == [intent |-> "none", selectedProducts |-> <<>>]

PageInit(products, existingProducts) ==
    [pc |-> "idle", products |-> products, existingProducts |-> existingProducts,
     selectedProducts |-> <<>>, showExisting |-> FALSE,
     message |-> NoResponse, submitted |-> NoForm]

\* products.edges.filter(({ node }) => showExisting
\*     ? existingProducts.includes(node.id) : !existingProducts.includes(node.id))
FilteredProducts(st) ==
    SelectSeq(st.products, LAMBDA id :
        IF st.showExisting THEN id \in st.existingProducts
                           ELSE id \notin st.existingProducts)

\* prev.includes(id) ? prev.filter((pid) => pid !== id) : [...prev, id]
Toggled(prev, id) ==
    IF InList(id, prev) THEN SelectSeq(prev, LAMBDA pid : pid # id)
                        ELSE Append(prev, id)

\* the hidden inputs of fetcher.Form
FormOf(st) ==
    [intent |-> IF st.showExisting THEN "delete" ELSE "save",
     selectedProducts |-> st.selectedProducts]

\* What the action can answer to a form of this page, whose shop is installed:
\* a delete succeeds; a save fails when an identifier is already an upsell
\* product, of this shop or (whatever the page knows) of another one.
FormResponses(st, form) ==
    IF form.intent = "delete" THEN {RemovedOk}
    ELSE IF \E i \in DOMAIN form.selectedProducts :
                form.selectedProducts[i] \in st.existingProducts
         THEN {ProcessingError}
         ELSE {SavedOk, ProcessingError}

\* the loader's existingProducts after the revalidation that follows the action
Revalidated(st, form, response) ==
    LET ids == { form.selectedProducts[i] : i \in DOMAIN form.selectedProducts }
    IN  IF response.key # "success" THEN st.existingProducts
        ELSE IF form.intent = "delete" THEN st.existingProducts \ ids
        ELSE st.existingProducts \cup ids

\* onChange of the checkbox of a product of the current view
PageToggle(id) ==
    /\ page.pc \in {"idle", "submitting"}
    /\ InList(id, FilteredProducts(page))
    /\ page' = [page EXCEPT !.selectedProducts = Toggled(@, id)]
    /\ UNCHANGED <<shops, items, sess, resp, ld, w>>

\* onClick of the view button: setShowExisting(!showExisting)
PageSwitchView ==
    /\ page.pc \in {"idle", "submitting"}
    /\ page' = [page EXCEPT !.showExisting = ~ @]
    /\ UNCHANGED <<shops, items, sess, resp, ld, w>>

\* the submit button, rendered while selectedProducts is not empty
PageSubmit ==
    /\ page.pc = "idle"
    /\ Len(page.selectedProducts) > 0
    /\ page' = [page EXCEPT !.pc = "submitting", !.submitted = FormOf(page)]
    /\ UNCHANGED <<shops, items, sess, resp, ld, w>>

\* fetcher.data arrives and the loader data is revalidated: the effect sets the
\* message and, on success, clears the selection
PageResponse(response) ==
    /\ page.pc = "submitting"
    /\ response \in FormResponses(page, page.submitted)
    /\ page' = [page EXCEPT
                  !.pc = "idle",
                  !.submitted = NoForm,
                  !.message = response,
                  !.existingProducts = Revalidated(page, page.submitted, response),
                  !.selectedProducts = IF response.key = "success" THEN <<>> ELSE @]
    /\ UNCHANGED <<shops, items, sess, resp, ld, w>>

\* onDismiss of the banner: setMessage(null)
PageDismiss ==
    /\ page.pc \in {"idle", "submitting"}
    /\ page.message # NoResponse
    /\ page' = [page EXCEPT !.message = NoResponse]
    /\ UNCHANGED <<shops, items, sess, resp, ld, w>>

-----------------------------------------------------------------------------
(* Values of the components a specification leaves alone *)

LoaderOff == [pc |-> "off"]
WidgetOff == [pc |-> "off"]
PageOff   == [pc |-> "off"]

-----------------------------------------------------------------------------
(* Spec: merchant sessions calling the write path concurrently *)

Init ==
    /\ shops = InstalledShops
    /\ items = <<>>
    /\ sess = [s \in Sessions |-> IdleSession(NoResponse)]
    /\ resp = NoQueryResponse
    /\ ld = LoaderOff
    /\ w = WidgetOff
    /\ page = PageOff

Next ==
    \/ \E s \in Sessions, d \in Domains, i \in Intents, b \in Batches :
          ActionShopMissing(s, d, i, b)
    \/ \E s \in Sessions, d \in Domains, i \in Intents, b \in Batches :
          ActionNoneSelected(s, d, i, b)
    \/ \E s \in Sessions, d \in Domains, i \in Intents, b \in Batches :
          ActionIssueStoreCall(s, d, i, b)
    \/ \E s \in Sessions : ActionDeleteMany(s)
    \/ \E s \in Sessions : ActionCreateMany(s)

Spec == Init /\ [][Next]_vars

-----------------------------------------------------------------------------
(* SpecQuery: the Public Query Endpoint over every table the schema admits *)

\* Tables of UpsellItem rows that satisfy the foreign key and the unique index
SchemaTables ==
    { t \in UNION { [1..n -> [shopId : {sh.id : sh \in InstalledShops},
                              shopifyProductId : ProductIds]] : n \in 0..NumProducts } :
        \A i, j \in DOMAIN t : i # j => t[i].shopifyProductId # t[j].shopifyProductId }

InitQuery ==
    /\ shops = InstalledShops
    /\ items \in SchemaTables
    /\ sess = [s \in Sessions |-> IdleSession(NoResponse)]
    /\ resp = NoQueryResponse
    /\ ld = LoaderOff
    /\ w = WidgetOff
    /\ page = PageOff

NextQuery ==
    \E p \in QueryParams, up \in BOOLEAN : QueryLoader(p, up)

SpecQuery == InitQuery /\ [][NextQuery]_vars

-----------------------------------------------------------------------------
(* SpecLoader: one call of the Selection Endpoint's loader, for any domain,   *)
(* any table the schema admits and any catalog                                *)

InitLoader ==
    /\ shops = InstalledShops
    /\ items \in SchemaTables
    /\ sess = [s \in Sessions |-> IdleSession(NoResponse)]
    /\ resp = NoQueryResponse
    /\ \E c \in Catalogs :
          ld = [pc |-> "start", catalog |-> c, domain |-> "", existingProducts |-> <<>>,
                allProducts |-> <<>>, hasNextPage |-> TRUE, cursor |-> NullCursor]
    /\ w = WidgetOff
    /\ page = PageOff

NextLoader ==
    \/ \E d \in Domains : LoaderStart(d)
    \/ LoaderRequestPage
    \/ \E k \in 0..MaxCatalog : LoaderPageArrives(k)
    \/ LoaderReturn

SpecLoader == InitLoader /\ [][NextLoader]_vars

\* Every awaited call resolves and the handler runs on: weak fairness of each step.
FairSpecLoader ==
    /\ InitLoader
    /\ [][NextLoader]_vars
    /\ WF_vars(\E d \in Domains : LoaderStart(d))
    /\ WF_vars(LoaderRequestPage)
    /\ WF_vars(\E k \in 0..MaxCatalog : LoaderPageArrives(k))
    /\ WF_vars(LoaderReturn)

-----------------------------------------------------------------------------
(* SpecWidget: the Checkout Widget from its first render, for any cart *)

InitWidget ==
    /\ shops = InstalledShops
    /\ items = <<>>
    /\ sess = [s \in Sessions |-> IdleSession(NoResponse)]
    /\ resp = NoQueryResponse
    /\ ld = LoaderOff
    /\ \E lines \in Carts : w = WidgetInit(lines)
    /\ page = PageOff

NextWidget ==
    \/ WidgetMount
    \/ \E f \in FetchFailures : WidgetFetchFails(f)
    \/ \E n \in NodeLists : WidgetFetchResolves(n)
    \/ \E lines \in Carts : WidgetCartChanges(lines)
    \/ \E v \in Variants : WidgetPress(v)
    \/ \E v \in Variants : WidgetAddSucceeds(v)
    \/ \E v \in Variants : WidgetAddFails(v)
    \/ WidgetTimePasses
    \/ WidgetErrorTimerFires

SpecWidget == InitWidget /\ [][NextWidget]_vars

\* The mount effect runs after the first render, and the awaited fetch and
\* query settle: each resolves or rejects.
FetchSettles ==
    \/ \E f \in FetchFailures : WidgetFetchFails(f)
    \/ \E n \in NodeLists : WidgetFetchResolves(n)

FairSpecWidget ==
    /\ SpecWidget
    /\ WF_vars(WidgetMount)
    /\ WF_vars(FetchSettles)

-----------------------------------------------------------------------------
(* SpecPage: one merchant on the selection page, for any loader data *)

InitPage ==
    /\ shops = InstalledShops
    /\ items = <<>>
    /\ sess = [s \in Sessions |-> IdleSession(NoResponse)]
    /\ resp = NoQueryResponse
    /\ ld = LoaderOff
    /\ w = WidgetOff
    /\ \E c \in PageCatalogs, e \in PageExisting : page = PageInit(c, e)

NextPage ==
    \/ \E id \in CatalogIds : PageToggle(id)
    \/ PageSwitchView
    \/ PageSubmit
    \/ \E r \in {RemovedOk, SavedOk, ProcessingError} : PageResponse(r)
    \/ PageDismiss

SpecPage == InitPage /\ [][NextPage]_vars

-----------------------------------------------------------------------------
(* Properties of the write path, checked under Spec *)

CreateManyReturns(s) == sess[s].pc = "createMany" /\ sess'[s].pc = "idle"
DeleteManyReturns(s) == sess[s].pc = "deleteMany" /\ sess'[s].pc = "idle"

ProductExists(table, productId) ==
    \E j \in DOMAIN table : table[j].shopifyProductId = productId

DuplicateFree(list) ==
    \A i, j \in DOMAIN list : i # j => list[i] # list[j]

\* the tables the write path can reach are tables the schema admits
StoreInSchema == items \in SchemaTables

\* C1: a save whose batch holds an identifier that is already an UpsellItem (of
\* any shop) inserts nothing, leaves the table as it was and returns the generic
\* error 'An error occurred while processing products.'
C1_ConflictFailsWholeBatch ==
    [][\A s \in Sessions :
         ( /\ CreateManyReturns(s)
           /\ \E i \in DOMAIN sess[s].productIds :
                 ProductExists(items, sess[s].productIds[i]) )
         => ( /\ items' = items
              /\ sess'[s].result = ProcessingError )]_vars

\* a session holds the generic error while the rejected batch left the one row
\* of the table alone
C1_Witness ==
    \E s \in Sessions :
        /\ sess[s].pc = "idle"
        /\ sess[s].result = ProcessingError
        /\ Len(items) = 1

\* C2: in every reachable state, whatever the interleaving of the sessions' save
\* and delete calls, no two UpsellItem rows carry the same product identifier
C2_UniqueProductIds ==
    \A i, j \in DOMAIN items :
        i # j => items[i].shopifyProductId # items[j].shopifyProductId

\* two sessions raced: one was told its products were saved, the other got the
\* error, and the table holds rows of both shops
C2_Witness ==
    \E s, t \in Sessions :
        /\ sess[s].result = SavedOk
        /\ sess[t].result = ProcessingError
        /\ \E i, j \in DOMAIN items : items[i].shopId # items[j].shopId

\* C5 as stated: the save of a non-empty, duplicate-free list for a shop without
\* rows succeeds and leaves the shop with exactly one row per identifier
C5_SaveForFreshShop ==
    [][\A s \in Sessions :
         ( /\ CreateManyReturns(s)
           /\ sess[s].productIds # <<>>
           /\ DuplicateFree(sess[s].productIds)
           /\ UpsellItemsOf(items, sess[s].shop.id) = <<>> )
         => ( /\ sess'[s].result = SavedOk
              /\ Len(UpsellItemsOf(items', sess[s].shop.id)) = Len(sess[s].productIds)
              /\ \A i \in DOMAIN sess[s].productIds :
                    \E j \in DOMAIN items' :
                       /\ items'[j].shopId = sess[s].shop.id
                       /\ items'[j].shopifyProductId = sess[s].productIds[i] )]_vars

\* C5 amended: the same, when in addition none of the identifiers is an
\* UpsellItem of another shop at the time of the insert
C5_SaveForFreshShopNoneTaken ==
    [][\A s \in Sessions :
         ( /\ CreateManyReturns(s)
           /\ sess[s].productIds # <<>>
           /\ DuplicateFree(sess[s].productIds)
           /\ UpsellItemsOf(items, sess[s].shop.id) = <<>>
           /\ \A i \in DOMAIN sess[s].productIds :
                 ~ ProductExists(items, sess[s].productIds[i]) )
         => ( /\ sess'[s].result = SavedOk
              /\ Len(UpsellItemsOf(items', sess[s].shop.id)) = Len(sess[s].productIds)
              /\ \A i \in DOMAIN sess[s].productIds :
                    \E j \in DOMAIN items' :
                       /\ items'[j].shopId = sess[s].shop.id
                       /\ items'[j].shopifyProductId = sess[s].productIds[i] )]_vars

\* a session was told its products were saved and one shop holds two rows, the
\* only rows of the table
C5_Witness ==
    \E s \in Sessions :
        /\ sess[s].result = SavedOk
        /\ Len(items) = 2
        /\ items[1].shopId = items[2].shopId

\* C6: a delete whose identifiers match no row of the shop (the empty list
\* included) leaves the table unchanged and returns 'Products removed successfully!'
C6_DeleteOfAbsentIsNoOp ==
    [][\A s \in Sessions :
         ( /\ DeleteManyReturns(s)
           /\ \A j \in DOMAIN items :
                 ~ ( /\ items[j].shopId = sess[s].shop.id
                     /\ InList(items[j].shopifyProductId, sess[s].productIds) ) )
         => ( /\ items' = items
              /\ sess'[s].result = RemovedOk )]_vars

\* a session was told its products were removed while every product still has
\* its row
C6_Witness ==
    \E s \in Sessions :
        /\ sess[s].result = RemovedOk
        /\ \A p \in ProductIds : ProductExists(items, p)

\* the step is the call of the action by session s with the session's domain,
\* the form's intent and its selectedProducts, up to its first return or store call
ActionCalled(s, domain, intent, productIds) ==
    \/ ActionShopMissing(s, domain, intent, productIds)
    \/ ActionNoneSelected(s, domain, intent, productIds)
    \/ ActionIssueStoreCall(s, domain, intent, productIds)

HasShop(domain) == \E sh \in shops : sh.shopifyDomain = domain

\* C14: a call, of either intent, by a session whose domain has no Shop row
\* returns the error that names the domain and leaves the store as it was
C14_MissingShopIsReported ==
    [][\A s \in Sessions, d \in Domains, i \in Intents, b \in Batches :
         (sess[s].pc = "idle" /\ ~ HasShop(d) /\ ActionCalled(s, d, i, b))
         => ( /\ sess'[s].pc = "idle"
              /\ sess'[s].result.key = "error"
              /\ sess'[s].result.text = "Shop with domain " \o d \o " not found"
              /\ items' = items
              /\ shops' = shops )]_vars

\* a session was told that the shop of c.myshopify.com was not found while the
\* table keeps its rows
C14_Witness ==
    \E s \in Sessions :
        /\ sess[s].pc = "idle"
        /\ sess[s].result.text = "Shop with domain c.myshopify.com not found"
        /\ items # <<>>

\* C15 as stated: a call whose intent is not 'delete' and whose list is empty
\* returns 'No products selected.' and leaves the store as it was
C15_EmptySaveRejected ==
    [][\A s \in Sessions, d \in Domains, i \in Intents :
         (sess[s].pc = "idle" /\ i # "delete" /\ ActionCalled(s, d, i, <<>>))
         => ( /\ sess'[s].result = [key |-> "error", text |-> "No products selected."]
              /\ items' = items )]_vars

\* C15 amended: the same for a session whose shop exists; the test is made for
\* the save branch only, a delete with an empty list goes on to its store call
C15_EmptySaveRejectedForShop ==
    [][\A s \in Sessions, d \in Domains, i \in Intents :
         (sess[s].pc = "idle" /\ HasShop(d) /\ ActionCalled(s, d, i, <<>>))
         => IF i # "delete"
            THEN /\ sess'[s].pc = "idle"
                 /\ sess'[s].result = [key |-> "error", text |-> "No products selected."]
                 /\ items' = items
            ELSE /\ sess'[s].pc = "deleteMany"
                 /\ sess'[s].productIds = <<>>
                 /\ items' = items]_vars

\* a session was told that no products were selected while the table keeps its rows
C15_Witness ==
    \E s \in Sessions :
        /\ sess[s].pc = "idle"
        /\ sess[s].result.text = "No products selected."
        /\ items # <<>>

RowSet(table) == { table[j] : j \in DOMAIN table }

\* C16: the store call of a session authenticated for shop S changes rows of S
\* only: a delete removes exactly the rows of S whose identifier is in the list,
\* a save adds rows of S only and removes none, and the rows of every other shop
\* stay, those whose identifier is in the list included
C16_OnlyOwnRowsChange ==
    [][\A s \in Sessions :
         /\ DeleteManyReturns(s) =>
              /\ RowSet(items') =
                    { r \in RowSet(items) :
                        ~ ( r.shopId = sess[s].shop.id
                            /\ InList(r.shopifyProductId, sess[s].productIds) ) }
              /\ Len(items') = Cardinality(RowSet(items'))
         /\ CreateManyReturns(s) =>
              /\ RowSet(items) \subseteq RowSet(items')
              /\ \A r \in RowSet(items') \ RowSet(items) :
                    /\ r.shopId = sess[s].shop.id
                    /\ InList(r.shopifyProductId, sess[s].productIds)
         /\ (DeleteManyReturns(s) \/ CreateManyReturns(s)) =>
              \A j \in DOMAIN items :
                 items[j].shopId # sess[s].shop.id
                    => \E k \in DOMAIN items' : items'[k] = items[j]]_vars

\* a session was told its products were removed and the one row left is a row
\* of the other shop
C16_Witness ==
    \E s \in Sessions :
        /\ sess[s].result = RemovedOk
        /\ Len(items) = 1
        /\ \E t \in Sessions :
              /\ t # s
              /\ sess[t].result = SavedOk

-----------------------------------------------------------------------------
(* Properties of the Public Query Endpoint, checked under SpecQuery *)

\* C8: unless the lookup threw, the response is 404 {error: "Shop not found"}
\* when the shopDomain (the empty string when absent) is the domain of no Shop,
\* and 200 with the rows of the shop otherwise, the empty array when it has none
C8_QueryStatus ==
    (resp.asked /\ resp.status # 500) =>
        LET d == IF resp.shopDomain = Absent THEN "" ELSE resp.shopDomain
            known == { sh \in shops : sh.shopifyDomain = d }
        IN  IF known = {}
            THEN /\ resp.status = 404
                 /\ resp.body = [json |-> "object", error |-> "Shop not found", array |-> <<>>]
            ELSE /\ resp.status = 200
                 /\ resp.body.json = "array"
                 /\ \E sh \in known :
                       /\ resp.body.array = SelectSeq(items, LAMBDA r : r.shopId = sh.id)
                       /\ (\A j \in DOMAIN items : items[j].shopId # sh.id)
                             => resp.body.array = <<>>

\* a known shop without rows was answered 200 with [] while the other shop has rows
C8_Witness ==
    /\ resp.asked
    /\ resp.status = 200
    /\ resp.body = [json |-> "array", error |-> "", array |-> <<>>]
    /\ items # <<>>

\* the 404 of an absent shopDomain parameter
C8_WitnessAbsent ==
    resp.asked /\ resp.shopDomain = Absent /\ resp.status = 404

\* C9: every response, 200, 404 or 500, carries Access-Control-Allow-Origin: *
C9_CorsOnEveryResponse ==
    resp.asked =>
        /\ resp.status \in {200, 404, 500}
        /\ "Access-Control-Allow-Origin" \in DOMAIN resp.headers
        /\ resp.headers["Access-Control-Allow-Origin"] = "*"

\* a 500 'Internal server error' that carries the header
C9_Witness ==
    /\ resp.asked
    /\ resp.status = 500
    /\ resp.body.error = "Internal server error"
    /\ "Access-Control-Allow-Origin" \in DOMAIN resp.headers

-----------------------------------------------------------------------------
(* Properties of the loader, checked under SpecLoader and FairSpecLoader *)

\* C3: for every finite catalog the pagination loop terminates, whatever pages
\* the source returns, a page without edges included
C3_FetchTerminates ==
    <>(ld.pc = "done")

\* C4: the list the loader returns holds the catalog's products, all of them,
\* once each and in the source's order, however the source split it into pages
C4_FetchedCatalogInOrder ==
    ld.pc = "done" =>
        /\ Len(ld.allProducts) = Len(ld.catalog)
        /\ \A i \in DOMAIN ld.allProducts : ld.allProducts[i].node = ld.catalog[i]

\* a catalog of several products returned after more than one page (the cursor
\* was advanced)
C4_Witness ==
    /\ ld.pc = "done"
    /\ Len(ld.catalog) >= 2
    /\ ld.cursor # NullCursor
    /\ Len(ld.allProducts) = Len(ld.catalog)

\* C7: once the loader has served a domain, a Shop row keyed by that domain
\* exists (it was created on this first interaction if it was missing)
C7_ShopCreatedOnFirstRequest ==
    ld.pc = "done" => \E sh \in shops : sh.shopifyDomain = ld.domain

-----------------------------------------------------------------------------
(* Properties of the Checkout Widget, checked under SpecWidget *)

\* the products of the resolved list whose first variant is the merchandise of
\* no line of the cart
NotInCart(products, lines) ==
    { i \in DOMAIN products :
        products[i].variants.nodes[1].id \notin { line.merchandise.id : line \in lines } }

\* C10: once the products are resolved, what is on screen is computed from the
\* cart as it is now: a card for exactly the products whose first variant is in
\* no cart line, and nothing at all when there is no such product
C10_AvailableIsNotInCart ==
    (w.pc = "mounted" /\ ~ w.loading) =>
        LET available == NotInCart(w.products, w.lines)
        IN  IF available = {}
            THEN w.rendered.kind = "null"
            ELSE /\ w.rendered.kind = "list"
                 /\ Len(w.rendered.cards) = Cardinality(available)
                 /\ { w.rendered.cards[j].product : j \in DOMAIN w.rendered.cards }
                       = { w.products[i] : i \in available }

\* candidates A (variant in the cart) and B (variant not in the cart): only B is offered
C10_Witness ==
    /\ w.pc = "mounted"
    /\ w.products = <<Product(1), Product(2)>>
    /\ [merchandise |-> [id |-> VariantId(1)]] \in w.lines
    /\ w.rendered.kind = "list"
    /\ Len(w.rendered.cards) = 1
    /\ w.rendered.cards[1].product = Product(2)

\* every resolved product is in the cart: nothing is rendered
C10_WitnessNothing ==
    /\ w.pc = "mounted"
    /\ Len(w.products) = 2
    /\ NotInCart(w.products, w.lines) = {}
    /\ w.rendered.kind = "null"

\* C11: every error result of a cart add sets the banner flag, and the flag is
\* cleared when ErrorDelay ms have passed since that error result, not earlier
\* and not later, also when the error arrives while the flag is already set
C11_BannerClearsAfterDelay ==
    [][/\ \A v \in Variants : WidgetAddFails(v) => (w'.showError /\ w'.sinceError = 0)
       /\ (w.showError /\ ~ w'.showError) => w.sinceError = ErrorDelay
       /\ WidgetTimePasses => w.sinceError < ErrorDelay]_vars

\* the card of variant v on screen, if there is one, shows loading = flag
CardShows(rendered, v, flag) ==
    \A i \in DOMAIN rendered.cards :
        rendered.cards[i].product.variants.nodes[1].id = v
            => rendered.cards[i].loading = flag

\* C12: a variant's loading flag goes up only in a press of its own button and
\* down only when one of its own cart adds completes; a press on another
\* variant's button leaves the flag, and the button on screen, as they were
C12_FlagsAreIndependent ==
    [][\A v \in Variants :
         LET before == IsLoading(w.actionStates, v)
             after  == IsLoading(w'.actionStates, v)
         IN  /\ (~ before /\ after) => WidgetPress(v)
             /\ (before /\ ~ after) => (WidgetAddSucceeds(v) \/ WidgetAddFails(v))
             /\ \A u \in Variants \ {v} :
                   WidgetPress(u) => (after = before /\ CardShows(w'.rendered, v, before))]_vars

\* A's add is pending and B has been pressed: both buttons on screen are loading
C12_Witness ==
    /\ \A v \in Variants : w.pending[v] = 1 /\ IsLoading(w.actionStates, v)
    /\ w.rendered.kind = "list"
    /\ Len(w.rendered.cards) = NumUpsells
    /\ \A i \in DOMAIN w.rendered.cards : w.rendered.cards[i].loading

\* a press on B while A is pending and B is idle: A loading, B not, B's add not started
C12_WitnessBefore ==
    /\ w.pending[VariantId(1)] = 1 /\ IsLoading(w.actionStates, VariantId(1))
    /\ w.pending[VariantId(2)] = 0 /\ ~ IsLoading(w.actionStates, VariantId(2))
    /\ w.rendered.kind = "list"
    /\ CardShows(w.rendered, VariantId(2), FALSE)
    /\ Len(w.rendered.cards) = 2

\* C18: a variant's loading flag is true exactly while at least one cart add for
\* that variant is in flight
C18_LoadingIffInFlight ==
    \A v \in Variants : IsLoading(w.actionStates, v) <=> w.pending[v] > 0

\* the widget renders nothing and shows no error
EndsEmpty(st) ==
    /\ st.pc = "mounted" /\ ~ st.loading
    /\ st.products = <<>>
    /\ st.rendered.kind = "null"
    /\ ~ st.rendered.banner

\* the widget holds exactly the non-null nodes of the lookup n
EndsReady(st, n) ==
    /\ st.pc = "mounted" /\ ~ st.loading
    /\ Len(st.products) = Cardinality({ i \in DOMAIN n : n[i] # 0 })
    /\ { st.products[i] : i \in DOMAIN st.products }
          = { Product(n[i]) : i \in { j \in DOMAIN n : n[j] # 0 } }

\* C13: the mount puts the widget into loading (the skeleton is on screen) and
\* the widget always leaves it, never to return; a fetch that fails at any stage,
\* and a lookup that resolves no product, end with no products and nothing
\* rendered, with the error flag untouched; any other lookup ends with exactly
\* its non-null products
C13_LoadingAlwaysEnds ==
    /\ [](w.pc = "fetching" => (w.loading /\ w.rendered = Skeleton))
    /\ [](w.pc = "mounted" => ~ w.loading)
    /\ (w.pc = "idle") ~> (w.pc = "mounted" /\ ~ w.loading)
    /\ [][/\ WidgetMount => w'.pc = "fetching"
          /\ \A f \in FetchFailures :
                WidgetFetchFails(f) => (EndsEmpty(w') /\ w'.showError = w.showError)
          /\ \A n \in NodeLists :
                WidgetFetchResolves(n) =>
                    /\ EndsReady(w', n)
                    /\ (\A i \in DOMAIN n : n[i] = 0) => EndsEmpty(w')
                    /\ w'.showError = w.showError]_vars

\* the fetch is over without products: nothing on screen, no error flag
C13_Witness ==
    /\ EndsEmpty(w)
    /\ ~ w.showError
    /\ w.pending = NoPending

\* the lookup resolved a product and a null: the widget holds the product
C13_WitnessReady ==
    /\ w.pc = "mounted" /\ ~ w.loading
    /\ w.products = <<Product(2)>>
    /\ w.rendered.kind = "list"

-----------------------------------------------------------------------------
(* Properties of the selection page, checked under SpecPage *)

\* C17: whatever the merchant ticked and however often the view was switched,
\* the form that is posted agrees with its intent: with 'delete' every
\* identifier is an existing upsell product, with 'save' none is
C17_FormAgreesWithIntent ==
    [][PageSubmit =>
          LET form == page'.submitted
          IN  \A i \in DOMAIN form.selectedProducts :
                 IF form.intent = "delete"
                 THEN form.selectedProducts[i] \in page.existingProducts
                 ELSE form.selectedProducts[i] \notin page.existingProducts]_vars

====
